---- MODULE Spec2Model ----
(***************************************************************************)
(* State-machine model of src/forecast_backend.py, the Flask service that  *)
(* serves PM2.5 forecasts: the module-level model load, the /health        *)
(* handler and the /forecast handler with its helpers                      *)
(* generate_forecast_features and map_category_to_aqi.                     *)
(*                                                                         *)
(* Numbers.  Python floats are modelled in fixed point: every sensor       *)
(* quantity (pm25, temperature, humidity, wind) is an integer number of    *)
(* hundredths, so 150 is 15000 and the clamp 0.1 is 10.  sin and cos are   *)
(* tables in thousandths over the hour offsets the code passes.  Wall      *)
(* clock time is an integer number of seconds.                             *)
(*                                                                         *)
(* Randomness.  np.random is the process-wide generator: one global state  *)
(* that every draw reads and advances.  It is modelled as a small cyclic   *)
(* generator, rng, whose output is scaled onto the inclusive range asked   *)
(* for, both ends included.                                                *)
(***************************************************************************)
EXTENDS Integers, Sequences, FiniteSets, TLC

\* The clock may advance by this many seconds in one behaviour.
MaxTicks == 1
\* Number of states of the modelled generator.
RngMod == 4
\* Wall clock (seconds since the epoch of the model) when the process starts:
\* one second before an hour boundary.
BootClock == 3599

Workers == {1, 2}

VARIABLES
    model,   \* the module global `model`: "None" or the loaded classifier
    clock,   \* what datetime.now() returns, in seconds
    rng,     \* state of the process-wide np.random generator
    req,     \* per worker: the /forecast call it runs, its locals, its response
    hresp    \* the last /health response

vars == <<model, clock, rng, req, hresp>>

------------------------------------------------------------------------------
(* JSON values of a request body *)

Absent == [t |-> "absent", n |-> 0, s |-> ""]
JNum(x) == [t |-> "num", n |-> x, s |-> ""]
JStr(x) == [t |-> "str", n |-> 0, s |-> x]

\* data.get(key, default)
Get(data, key, default) == IF data[key].t = "absent" THEN default ELSE data[key]

\* A request body: body = FALSE is a request without a JSON object
\* (request.json is None or raises).
Body(p, t, h, w, ty) ==
    [body |-> TRUE, pm25 |-> p, temperature |-> t, humidity |-> h,
     wind_speed |-> w, type |-> ty]
NoBody ==
    [body |-> FALSE, pm25 |-> Absent, temperature |-> Absent,
     humidity |-> Absent, wind_speed |-> Absent, type |-> Absent]

\* Request bodies a client sends to a single-worker run.
Requests ==
    { NoBody,
      Body(Absent, Absent, Absent, Absent, Absent),
      Body(Absent, Absent, Absent, Absent, JStr("daily")),
      Body(Absent, Absent, Absent, Absent, JStr("extended")),
      Body(Absent, Absent, Absent, Absent, JStr("weekly")),
      Body(JNum(15000), JNum(2000), JNum(6000), JNum(500), JStr("daily")),
      Body(JStr("abc"), Absent, Absent, Absent, JStr("daily")),
      Body(Absent, Absent, JStr("wet"), Absent, Absent),
      Body(JNum(-5000), JNum(6000), JNum(15000), JNum(0), JStr("extended")),
      Body(JNum(45000), JNum(-3000), JNum(-1000), JNum(-200), JStr("daily")),
      Body(JNum(45000), JNum(4900), JNum(300), JNum(5), JStr("extended")) }

\* Snapshots inside, on the edge of and outside the declared domain, for the
\* hourly horizon (every phase of the cycles) and a daily one.
FeatureRequests ==
    { Body(JNum(p), JNum(t), JNum(h), JNum(w), JStr(ty)) :
        p \in {-5000, 0, 15000, 45000},
        t \in {-3000, 2000, 4800, 6000},
        h \in {-1000, 500, 6000, 9900, 15000},
        w \in {-200, 0, 5, 500},
        ty \in {"hourly", "extended"} }

\* Request bodies sent to the two concurrent workers.
ConcRequests ==
    { Body(Absent, Absent, Absent, Absent, JStr("daily")),
      Body(JNum(45000), JNum(4900), JNum(300), JNum(5), JStr("daily")) }

------------------------------------------------------------------------------
(* The classifier.  The pickled XGBoost model is opaque: any deterministic *)
(* function of the feature vector.  Two stand-ins: "bands" answers within  *)
(* the contract 0..5 from pm25 alone, "wide" reads pm25 and temperature    *)
(* and also answers outside the contract.                                  *)

Classifiers == {"bands", "wide"}

Min(a, b) == IF a < b THEN a ELSE b
Max(a, b) == IF a > b THEN a ELSE b

\* int(model.predict(features_array)[0])
ModelPredict(m, features) ==
    IF m = "bands" THEN Max(0, Min(5, features[1] \div 5000))
    ELSE (features[1] \div 5000) - 3 + (IF features[2] > 2000 THEN 2 ELSE 0)

------------------------------------------------------------------------------
(* Category to AQI mapping *)

CATEGORY_TO_AQI ==
    [c \in 0..5 |->
        CASE c = 0 -> <<100, 200>>
          [] c = 1 -> <<200, 350>>
          [] c = 2 -> <<350, 500>>
          [] c = 3 -> <<500, 700>>
          [] c = 4 -> <<700, 900>>
          [] c = 5 -> <<900, 1000>>]

\* CATEGORY_TO_AQI.get(category, (100, 200))
RangeOf(category) ==
    IF category \in DOMAIN CATEGORY_TO_AQI THEN CATEGORY_TO_AQI[category]
    ELSE <<100, 200>>

\* One step of the generator.
RngNext(s) == (s + 3) % RngMod

\* np.random.randint(low, high) from generator state s: an integer in
\* low .. high-1; the smallest state gives low, the largest gives high-1.
RandInt(low, high, s) == low + (s * (high - 1 - low)) \div (RngMod - 1)

\* Variant: the upper bound passed to randint is one too large.
map_category_to_aqi_HighPlusTwo(category, s) ==
    RandInt(RangeOf(category)[1], RangeOf(category)[2] + 2, s)

\* map_category_to_aqi(category), drawn from generator state s
map_category_to_aqi(category, s) ==
    RandInt(RangeOf(category)[1], RangeOf(category)[2] + 1, s)

------------------------------------------------------------------------------
(* generate_forecast_features *)

\* x / d rounded to the nearest integer (d > 0)
Rnd(x, d) == (2 * x + d) \div (2 * d)

SinQuarter12 == <<0, 259, 500, 707, 866, 966, 1000>>
\* 1000 * sin(h / 12 * pi) for an integer h >= 0
Sin12(h) ==
    LET k == h % 24
    IN  IF k <= 6 THEN SinQuarter12[k + 1]
        ELSE IF k <= 12 THEN SinQuarter12[12 - k + 1]
        ELSE IF k <= 18 THEN -SinQuarter12[k - 12 + 1]
        ELSE -SinQuarter12[24 - k + 1]
\* 1000 * cos(h / 12 * pi)
Cos12(h) == Sin12(h + 6)

SinQuarter8 == <<0, 383, 707, 924, 1000>>
\* 1000 * sin(h / 8 * pi)
Sin8(h) ==
    LET k == h % 16
    IN  IF k <= 4 THEN SinQuarter8[k + 1]
        ELSE IF k <= 8 THEN SinQuarter8[8 - k + 1]
        ELSE IF k <= 12 THEN -SinQuarter8[k - 8 + 1]
        ELSE -SinQuarter8[16 - k + 1]

\* hour_factor, in ten-thousandths
HourFactor(hours_ahead) == Rnd(Sin12(hours_ahead) * 15, 10)
\* temp_cycle, in hundredths
TempCycle(hours_ahead) == Rnd(Cos12(hours_ahead) * 300, 1000)

\* The locals pm25, temp, humidity, wind before the clamps of the return.
Projected(base_pm25, base_temp, base_humidity, base_wind, hours_ahead) ==
    LET hour_factor == HourFactor(hours_ahead)
        pm25_variation == Rnd(hour_factor * base_pm25 * 2, 100000)
        pm25 == Rnd(base_pm25 * (10000 + hour_factor), 10000) + pm25_variation
        temp_cycle == TempCycle(hours_ahead)
        temp == base_temp + temp_cycle
        humidity == base_humidity - (temp_cycle * 2)
        wind_cycle == Rnd(Sin8(hours_ahead) * base_wind * 2, 10000)
        wind == base_wind + wind_cycle
    IN  <<pm25, temp, humidity, wind>>

\* Variant: humidity is clamped from below only.
generate_forecast_features_NoUpperClamp(base_pm25, base_temp, base_humidity, base_wind, hours_ahead) ==
    LET p == Projected(base_pm25, base_temp, base_humidity, base_wind, hours_ahead)
    IN  << Max(0, p[1]),
           Max(-2000, Min(5000, p[2])),
           Max(0, p[3]),
           Max(10, p[4]) >>

\* Variant: pm25 gets a random perturbation drawn per call instead of the
\* periodic pattern alone.
generate_forecast_features_Noisy(base_pm25, base_temp, base_humidity, base_wind, hours_ahead) ==
    LET p == Projected(base_pm25, base_temp, base_humidity, base_wind, hours_ahead)
    IN  << Max(0, p[1] + RandInt(-2000, 2001, rng)),
           Max(-2000, Min(5000, p[2])),
           Max(0, Min(10000, p[3])),
           Max(10, p[4]) >>

generate_forecast_features(base_pm25, base_temp, base_humidity, base_wind, hours_ahead) ==
    LET p == Projected(base_pm25, base_temp, base_humidity, base_wind, hours_ahead)
    IN  << Max(0, p[1]),
           Max(-2000, Min(5000, p[2])),
           Max(0, Min(10000, p[3])),
           Max(10, p[4]) >>

------------------------------------------------------------------------------
(* Time: datetime.now() + timedelta(hours=i) and its renderings *)

\* datetime.now() + timedelta(hours=i), in seconds
PlusHours(now, i) == now + i * 3600

\* forecast_time.isoformat(): the date (as a day number) and the time of day
IsoFormat(t) ==
    [day |-> t \div 86400, hh |-> (t \div 3600) % 24,
     mm |-> (t \div 60) % 60, ss |-> t % 60]

\* forecast_time.hour
HourOf(t) == (t \div 3600) % 24
\* forecast_time.strftime('%a'); day 0 of the model is a Thursday
WeekdayNames == <<"Thu", "Fri", "Sat", "Sun", "Mon", "Tue", "Wed">>
StrftimeA(t) == WeekdayNames[((t \div 86400) % 7) + 1]
\* forecast_time.strftime('%b %d'); day 0 of the model is Jan 01
StrftimeBD(t) ==
    LET d == t \div 86400
    IN  IF d < 31 THEN [b |-> "Jan", d |-> d + 1] ELSE [b |-> "Feb", d |-> d - 30]

\* A JSON member that is null, or holds x.
Null == [null |-> TRUE, v |-> <<>>]
Some(x) == [null |-> FALSE, v |-> <<x>>]

\* Variant: the hour label is given to the daily series instead.
HourLabel_Daily(forecast_time, interval_hours) ==
    IF interval_hours = 24 THEN Some(HourOf(forecast_time)) ELSE Null

HourLabel(forecast_time, interval_hours) ==
    IF interval_hours = 1 THEN Some(HourOf(forecast_time)) ELSE Null
DayLabel(forecast_time, interval_hours) ==
    IF interval_hours = 24 THEN Some(StrftimeA(forecast_time)) ELSE Null
DateLabel(forecast_time, interval_hours) ==
    IF interval_hours = 24 THEN Some(StrftimeBD(forecast_time)) ELSE Null

\* round(x, 1) for x >= 0 in hundredths: to the nearest tenth, ties to even
Round1(x) ==
    LET q == x \div 10
        r == x % 10
    IN  IF r < 5 THEN q * 10
        ELSE IF r > 5 THEN (q + 1) * 10
        ELSE IF q % 2 = 0 THEN q * 10 ELSE (q + 1) * 10

------------------------------------------------------------------------------
(* The /forecast handler *)

NoResp == [code |-> 0]
Idle ==
    [pc |-> "idle", data |-> NoBody, i |-> 0, hours_to_predict |-> 0,
     interval_hours |-> 0, forecasts |-> <<>>, features |-> <<>>,
     proj |-> <<>>, seed0 |-> 0, resp |-> NoResp]

\* The handler has returned `response` to the request `data`; its locals are gone.
Done(data, seed0, response) ==
    [Idle EXCEPT !.pc = "done", !.data = data, !.seed0 = seed0, !.resp = response]

\* return jsonify({'error': ...}), code
ErrorResponse(code, message) == [code |-> code, error |-> message]

\* Variant: the except clause hands back what was assembled so far.
ExceptResponse_Partial(message, forecasts) ==
    [code |-> 400, error |-> message, forecasts |-> forecasts]

\* The except clause: whatever was assembled so far is dropped.
ExceptResponse(message, forecasts) == ErrorResponse(400, message)

\* The final return of the try block.
SuccessResponse(forecast_type, forecasts) ==
    [code |-> 200, status |-> "success", forecast_type |-> forecast_type,
     forecasts |-> forecasts, aqi_range |-> <<100, 1000>>,
     model_used |-> "xgboost_pm25_classifier"]

current_pm25(data) == Get(data, "pm25", JNum(15000))
current_temp(data) == Get(data, "temperature", JNum(2000))
current_humidity(data) == Get(data, "humidity", JNum(6000))
current_wind(data) == Get(data, "wind_speed", JNum(500))
forecast_type(data) == Get(data, "type", JStr("hourly"))

\* hours_to_predict of the if / elif / else on forecast_type
HoursToPredict(ftype) ==
    IF ftype = JStr("hourly") THEN 48
    ELSE IF ftype = JStr("daily") THEN 7 * 24
    ELSE 14 * 24
IntervalHours(ftype) ==
    IF ftype = JStr("hourly") THEN 1
    ELSE IF ftype = JStr("daily") THEN 24
    ELSE 24

\* Variant: the range includes its stop value.
RangeHas_Inclusive(i, stop) == i <= stop

\* Whether range(0, stop, step) still yields i.
RangeHas(i, stop) == i < stop

\* Arithmetic on a value that is not a number raises TypeError.
Numeric(data) ==
    /\ current_pm25(data).t = "num"
    /\ current_temp(data).t = "num"
    /\ current_humidity(data).t = "num"
    /\ current_wind(data).t = "num"

\* The dictionary built for one time point.
ForecastPoint(forecast_time, aqi, interval_hours, category, features) ==
    [time |-> IsoFormat(forecast_time),
     aqi |-> aqi,
     hour |-> HourLabel(forecast_time, interval_hours),
     day |-> DayLabel(forecast_time, interval_hours),
     date |-> DateLabel(forecast_time, interval_hours),
     category |-> category,
     pm25 |-> Round1(features[1])]

\* Entry of forecast() up to the loop: the model check, request.json, the
\* data.get calls and the choice of horizon and interval.
ForecastBegin(w, d) ==
    /\ req[w].pc \in {"idle", "done"}
    /\ req' = [req EXCEPT ![w] =
         IF model = "None"
           THEN Done(d, rng, ErrorResponse(500, "Model not loaded"))
         ELSE IF ~d.body
           THEN Done(d, rng, ExceptResponse("no JSON object", <<>>))
         ELSE [Idle EXCEPT !.pc = "loop", !.data = d, !.seed0 = rng,
                           !.hours_to_predict = HoursToPredict(forecast_type(d)),
                           !.interval_hours = IntervalHours(forecast_type(d))]]
    /\ UNCHANGED <<model, clock, rng, hresp>>

\* One iteration of the for loop; `fails` says whether model.predict raises.
ForecastStep(w, fails) ==
    LET r == req[w]
        d == r.data
    IN  /\ r.pc = "loop"
        /\ RangeHas(r.i, r.hours_to_predict)
        /\ IF ~Numeric(d)
             THEN /\ req' = [req EXCEPT ![w] =
                        Done(d, r.seed0, ExceptResponse("TypeError", r.forecasts))]
                  /\ rng' = rng
           ELSE LET features == generate_forecast_features(
                        current_pm25(d).n, current_temp(d).n,
                        current_humidity(d).n, current_wind(d).n, r.i)
                    proj == Projected(
                        current_pm25(d).n, current_temp(d).n,
                        current_humidity(d).n, current_wind(d).n, r.i)
                    category == ModelPredict(model, features)
                    aqi == map_category_to_aqi(category, rng)
                    forecast_time == PlusHours(clock, r.i)
                    point == ForecastPoint(forecast_time, aqi, r.interval_hours,
                                           category, features)
                IN  IF fails
                      THEN /\ req' = [req EXCEPT ![w] =
                                 Done(d, r.seed0,
                                      ExceptResponse("predict failed", r.forecasts))]
                           /\ rng' = rng
                      ELSE /\ req' = [req EXCEPT ![w] =
                                 [r EXCEPT !.features = features, !.proj = proj,
                                           !.forecasts = Append(r.forecasts, point),
                                           !.i = r.i + r.interval_hours]]
                           /\ rng' = RngNext(rng)
        /\ UNCHANGED <<model, clock, hresp>>

\* The loop is exhausted: return the series.
ForecastReturn(w) ==
    LET r == req[w]
    IN  /\ r.pc = "loop"
        /\ ~RangeHas(r.i, r.hours_to_predict)
        /\ req' = [req EXCEPT ![w] =
               Done(r.data, r.seed0,
                    SuccessResponse(forecast_type(r.data), r.forecasts))]
        /\ UNCHANGED <<model, clock, rng, hresp>>

------------------------------------------------------------------------------
(* The /health handler, the clock, startup *)

NoHealth == [code |-> 0, status |-> "", model_loaded |-> FALSE]

health ==
    /\ hresp' = [code |-> 200, status |-> "ok", model_loaded |-> (model # "None")]
    /\ UNCHANGED <<model, clock, rng, req>>

\* Time passes between any two steps of the program.
Tick ==
    /\ clock < BootClock + MaxTicks
    /\ clock' = clock + 1
    /\ UNCHANGED <<model, rng, req, hresp>>

\* Module import: pickle.load succeeds (a classifier) or raises (model = None).
Init ==
    /\ model \in {"None"} \cup Classifiers
    /\ clock = BootClock
    /\ rng \in 0..(RngMod - 1)
    /\ req = [w \in Workers |-> Idle]
    /\ hresp = NoHealth

\* The server handling one request at a time.
Next ==
    \/ Tick
    \/ health
    \/ \E d \in Requests : ForecastBegin(1, d)
    \/ \E fails \in BOOLEAN : ForecastStep(1, fails)
    \/ ForecastReturn(1)

Spec == Init /\ [][Next]_vars

\* The threaded server: two workers, each serving one request, their loop
\* iterations interleaved in any order.
ConcInit ==
    /\ Init
    /\ model \in Classifiers
    /\ rng \in {0, 1}

ConcBegin(w) == \E d \in ConcRequests : req[w].pc = "idle" /\ ForecastBegin(w, d)

ConcNext ==
    \/ \E w \in Workers : ConcBegin(w)
    \/ \E w \in Workers : ForecastStep(w, FALSE)
    \/ \E w \in Workers : ForecastReturn(w)

ConcSpec == ConcInit /\ [][ConcNext]_vars

\* The feature synthesizer driven over a grid of snapshots: one request per
\* behaviour, no classifier failure, the clock and the generator as they are.
FeatureInit ==
    /\ Init
    /\ model = "bands"
    /\ rng = 0

FeatureBegin == \E d \in FeatureRequests : req[1].pc = "idle" /\ ForecastBegin(1, d)

FeatureNext ==
    \/ FeatureBegin
    \/ ForecastStep(1, FALSE)
    \/ ForecastReturn(1)

FeatureSpec == FeatureInit /\ [][FeatureNext]_vars

------------------------------------------------------------------------------
(* Properties *)

\* The series a worker has returned, if it returned one.
Succeeded(w) == req[w].resp.code = 200
Returned(w) == req[w].resp.forecasts
HasSeries(response) == "forecasts" \in DOMAIN response

IsHourly(data) == forecast_type(data) = JStr("hourly")
IsDaily(data) == forecast_type(data) = JStr("daily")
IsExtended(data) == forecast_type(data) = JStr("extended")
ValidType(data) == IsHourly(data) \/ IsDaily(data) \/ IsExtended(data)

\* The interval the spec gives each granularity, in hours.
SpecInterval(data) == IF IsHourly(data) THEN 1 ELSE 24
\* The number of points the spec gives each granularity.
SpecPoints(data) == IF IsHourly(data) THEN 48 ELSE IF IsDaily(data) THEN 7 ELSE 14

\* The instant a rendered timestamp denotes, in seconds.
FromIso(x) == ((x.day * 24 + x.hh) * 60 + x.mm) * 60 + x.ss

\* C1: in every series returned, point k carries the timestamp
\* reference + k * interval hours for one reference time (that of the first
\* point), whatever the clock did during assembly.
C1_SingleReferenceTime ==
    \A w \in Workers :
        Succeeded(w) =>
            \A k \in 1..Len(Returned(w)) :
                FromIso(Returned(w)[k].time) =
                    FromIso(Returned(w)[1].time)
                        + (k - 1) * SpecInterval(req[w].data) * 3600

\* The vector the code synthesizes for the point at position k of a series.
VectorAt(data, k) ==
    generate_forecast_features(
        current_pm25(data).n, current_temp(data).n, current_humidity(data).n,
        current_wind(data).n, (k - 1) * SpecInterval(data))

\* C2: a successful forecast of a valid granularity returns exactly 48
\* (hourly), 7 (daily) or 14 (extended) points, and the point at position k
\* is the one of offset (k - 1) * interval: its category and pm25 are those
\* of the vector synthesized for that offset.
C2_SeriesLength ==
    \A w \in Workers :
        (Succeeded(w) /\ ValidType(req[w].data)) =>
            /\ Len(Returned(w)) = SpecPoints(req[w].data)
            /\ \A k \in 1..Len(Returned(w)) :
                 /\ Returned(w)[k].category =
                        ModelPredict(model, VectorAt(req[w].data, k))
                 /\ Returned(w)[k].pm25 = Round1(VectorAt(req[w].data, k)[1])

C2_Witness ==
    /\ Succeeded(1)
    /\ IsHourly(req[1].data)
    /\ Len(Returned(1)) = 48
    /\ Returned(1)[1].category # Returned(1)[7].category

\* The inclusive index range of the spec's table, [100, 200] outside 0..5.
TableLow(c) ==
    CASE c = 0 -> 100 [] c = 1 -> 200 [] c = 2 -> 350 [] c = 3 -> 500
      [] c = 4 -> 700 [] c = 5 -> 900 [] OTHER -> 100
TableHigh(c) ==
    CASE c = 0 -> 200 [] c = 1 -> 350 [] c = 2 -> 500 [] c = 3 -> 700
      [] c = 4 -> 900 [] c = 5 -> 1000 [] OTHER -> 200

\* Every point produced so far by worker w, returned or still being assembled.
Produced(w) == IF Succeeded(w) THEN Returned(w) ELSE req[w].forecasts

\* C3: the index of every produced point lies in the inclusive range the
\* table gives the point's own category, and in [100, 200] when the category
\* is outside 0..5.
C3_IndexInCategoryRange ==
    \A w \in Workers :
        \A k \in 1..Len(Produced(w)) :
            LET p == Produced(w)[k]
            IN  /\ p.aqi >= TableLow(p.category)
                /\ p.aqi <= TableHigh(p.category)

C3_Witness ==
    \E k \in 1..Len(Produced(1)) :
        \E j \in 1..Len(Produced(1)) :
            /\ Produced(1)[k].category \notin 0..5
            /\ Produced(1)[k].aqi = 200
            /\ Produced(1)[j].category \in 1..5
            /\ Produced(1)[j].aqi > 200
            /\ Produced(1)[j].aqi = TableHigh(Produced(1)[j].category)

C5_DegradedService ==
    (model = "None") =>
        /\ \A w \in Workers :
               req[w].pc = "done" =>
                   (req[w].resp.code >= 400 /\ ~HasSeries(req[w].resp))
        /\ (hresp.code # 0) =>
               (hresp.model_loaded = FALSE /\ hresp.status # "ok")

\* A request body the spec calls malformed or out of domain.
OutOfDomain(data) ==
    \/ (data.pm25.t = "num" /\ data.pm25.n < 0)
    \/ (data.humidity.t = "num" /\ (data.humidity.n < 0 \/ data.humidity.n > 10000))
    \/ (data.wind_speed.t = "num" /\ data.wind_speed.n <= 0)
Malformed(data) ==
    \/ ~data.body
    \/ ~Numeric(data)
    \/ ~ValidType(data)
    \/ OutOfDomain(data)

\* C6: with the classifier loaded, a malformed or out-of-domain request is
\* answered with a client error (4xx) and no series.
C6_InvalidInputRejected ==
    \A w \in Workers :
        (model # "None" /\ req[w].pc = "done" /\ Malformed(req[w].data)) =>
            /\ req[w].resp.code >= 400
            /\ req[w].resp.code < 500
            /\ ~HasSeries(req[w].resp)

\* C7: every point of a returned hourly series has an hour label and null
\* day and date labels; every point of a returned daily or extended series
\* has day and date labels and a null hour label.
C7_ExclusiveLabels ==
    \A w \in Workers :
        Succeeded(w) =>
            \A k \in 1..Len(Returned(w)) :
                LET p == Returned(w)[k]
                IN  /\ IsHourly(req[w].data) =>
                        (~p.hour.null /\ p.day.null /\ p.date.null)
                    /\ (IsDaily(req[w].data) \/ IsExtended(req[w].data)) =>
                        (p.hour.null /\ ~p.day.null /\ ~p.date.null)
                    /\ (p.hour.null # p.day.null)
                    /\ (p.day.null = p.date.null)

\* An hourly series whose first hour label is 0, and whose labels wrap.
C7_Witness ==
    /\ Succeeded(1)
    /\ IsHourly(req[1].data)
    /\ Returned(1)[1].hour = Some(0)
    /\ Returned(1)[25].hour = Some(0)

\* The indices a request draws when it runs alone from generator state s.
RECURSIVE AloneAqi(_, _, _, _)
AloneAqi(data, m, s, k) ==
    IF k > HoursToPredict(forecast_type(data)) \div IntervalHours(forecast_type(data))
    THEN <<>>
    ELSE <<map_category_to_aqi(ModelPredict(m, VectorAt(data, k)), s)>>
            \o AloneAqi(data, m, RngNext(s), k + 1)

\* C8: under any interleaving of two requests, the indices of a returned
\* series are the draws the request would have made running alone from the
\* generator state it started with.
C8_ResultAsIfAlone ==
    \A w \in Workers :
        Succeeded(w) =>
            [k \in 1..Len(Returned(w)) |-> Returned(w)[k].aqi]
                = AloneAqi(req[w].data, model, req[w].seed0, 1)

\* C9: two returned series for the same request body agree position by
\* position on category and pm25.
C9_StableCategoryAndPm25 ==
    \A w1 \in Workers :
        \A w2 \in Workers :
            (Succeeded(w1) /\ Succeeded(w2) /\ req[w1].data = req[w2].data) =>
                /\ Len(Returned(w1)) = Len(Returned(w2))
                /\ \A k \in 1..Len(Returned(w1)) :
                     /\ Returned(w1)[k].category = Returned(w2)[k].category
                     /\ Returned(w1)[k].pm25 = Returned(w2)[k].pm25

\* Two returned series for the same body whose indices differ.
C9_Witness ==
    /\ Succeeded(1)
    /\ Succeeded(2)
    /\ req[1].data = req[2].data
    /\ \E k \in 1..Len(Returned(1)) : Returned(1)[k].aqi # Returned(2)[k].aqi

\* C10: the vector handed to the classifier is (pm25, temperature, humidity,
\* wind), each the clamp of its projection: pm25 >= 0, temperature in
\* [-20, 50], humidity in [0, 100], wind >= 0.1; at offset 0 the projected
\* pm25 is the base pm25 and the projected temperature is the base + 3.
C10_VectorClamped ==
    \A w \in Workers :
        LET r == req[w]
            f == r.features
            p == r.proj
        IN  (r.pc = "loop" /\ f # <<>>) =>
                /\ Len(f) = 4
                /\ f[1] >= 0 /\ (p[1] >= 0 => f[1] = p[1])
                /\ f[2] >= -2000 /\ f[2] <= 5000
                /\ ((p[2] >= -2000 /\ p[2] <= 5000) => f[2] = p[2])
                /\ f[3] >= 0 /\ f[3] <= 10000
                /\ ((p[3] >= 0 /\ p[3] <= 10000) => f[3] = p[3])
                /\ f[4] >= 10 /\ (p[4] >= 10 => f[4] = p[4])
                /\ (Len(r.forecasts) = 1) =>
                       /\ p[1] = current_pm25(r.data).n
                       /\ p[2] = current_temp(r.data).n + 300
                       /\ p[3] = current_humidity(r.data).n - 600
                       /\ p[4] = current_wind(r.data).n

\* An out-of-domain snapshot at offset 6 with every component clamped.
C10_Witness ==
    /\ req[1].pc = "loop"
    /\ Len(req[1].forecasts) = 7
    /\ IsHourly(req[1].data)
    /\ req[1].data.pm25 = JNum(-5000)
    /\ req[1].features = <<0, 5000, 10000, 10>>

====
